---- MODULE Spec2Model ----
(***************************************************************************)
(* PatientsDataGenerator of dicom2hdf                                      *)
(* (src/dicom2hdf/data_generators/patients_data_generator.py).             *)
(*                                                                         *)
(* The generator walks the patient folders, builds one PatientDataReader   *)
(* per folder, updates the shared series-descriptions dictionary, saves it *)
(* as a json document when a path was given, records the patients with     *)
(* missing images and returns one patient dataset per send().              *)
(*                                                                         *)
(* A dictionary is an ordered list of <<key, list of series names>> with   *)
(* unique keys; Python's None is the record NoneValue.  A json document is *)
(* a list of tokens.                                                       *)
(***************************************************************************)
EXTENDS Integers, Sequences, FiniteSets, TLC

\* ---------------------------------------------------------------- bounds
NumPatients == 2
MaxKeys == 3

\* ---------------------------------------------------------------- state
VARIABLES
    status,                          \* "unbuilt", "built" or "ctor_failed"
    series_descriptions,             \* self._series_descriptions
    path_to_series_description_json, \* self._path_to_series_description_json
    current_index,                   \* self._current_index
    patients_who_failed,             \* self._patients_who_failed
    documents,                       \* the json documents on disk, by path
    last,                            \* the last call and how it ended
    yielded,                         \* the folders whose dataset was returned
    resolved,                        \* the folders a reader was built for
    stops,                           \* how often send raised StopIteration, up to 2
    clean                            \* no send has raised but StopIteration

vars == <<status, series_descriptions, path_to_series_description_json,
          current_index, patients_who_failed, documents, last, yielded,
          resolved, stops, clean>>

\* ------------------------------------------------------------ vocabulary
KeyNames == <<"CT", "PET", "MR", "US", "XR">>
SegKey == "seg_label"
Paths == {"good.json", "overlap.json", "missing.json"}
NoPath == "None"

NoneValue == [none |-> TRUE, items |-> <<>>]
Dict(items) == [none |-> FALSE, items |-> items]

ToSet(s) == {s[i] : i \in 1..Len(s)}

\* the series names of the i-th image key, and a list for it that shares a
\* name with the list of the key before it
Canon(i) == IF i % 2 = 1 THEN <<"a">> ELSE <<"b", "c">>
Clash(i) == <<Canon(i - 1)[1]>> \o Canon(i)

\* CT: [a], PET: [b, c], MR: [a], ... up to n keys: consecutive keys are
\* disjoint, the first and the third share "a"
Plain(n) == [i \in 1..n |-> <<KeyNames[i], Canon(i)>>]
\* the same with the last key sharing a name with the key before it
Clashing(n) == [i \in 1..n |-> <<KeyNames[i], IF i = n THEN Clash(i) ELSE Canon(i)>>]

\* the dictionaries a caller may pass
Mappings == {Plain(n) : n \in 0..MaxKeys} \cup {Clashing(n) : n \in 2..MaxKeys}

\* ------------------------------------------------------ dict primitives
DictKeys(items) == {items[i][1] : i \in 1..Len(items)}

DictGet(items, k) == items[CHOOSE i \in 1..Len(items) : items[i][1] = k][2]

\* d[k] = v of an insertion-ordered dict
DictPut(items, k, v) ==
    IF k \in DictKeys(items)
    THEN [i \in 1..Len(items) |-> IF items[i][1] = k THEN <<k, v>> ELSE items[i]]
    ELSE Append(items, <<k, v>>)

\* ----------------------------------------------------- json documents
NoFile == [exists |-> FALSE, text |-> <<>>]
File(text) == [exists |-> TRUE, text |-> text]
Punctuation == {"{", "}", "[", "]", "null"}

RECURSIVE dump_items(_)
dump_items(items) ==
    IF items = <<>> THEN <<>>
    ELSE <<items[1][1], "[">> \o items[1][2] \o <<"]">> \o dump_items(Tail(items))

\* json.dump(obj, json_file, ensure_ascii=False, indent=4)
json_dump(obj) ==
    IF obj.none THEN <<"null">> ELSE <<"{">> \o dump_items(obj.items) \o <<"}">>

\* position of the first "]" of toks at or after position i, 0 when none
RECURSIVE closing(_, _)
closing(toks, i) ==
    IF i > Len(toks) THEN 0
    ELSE IF toks[i] = "]" THEN i
    ELSE IF toks[i] \in Punctuation THEN 0
    ELSE closing(toks, i + 1)

\* members of an object after "{": key "[" names "]" ... "}"
RECURSIVE parse_members(_, _, _)
parse_members(toks, i, acc) ==
    IF i > Len(toks) THEN [raised |-> "JSONDecodeError", value |-> NoneValue]
    ELSE IF toks[i] = "}"
    THEN IF i = Len(toks) THEN [raised |-> "", value |-> Dict(acc)]
         ELSE [raised |-> "JSONDecodeError", value |-> NoneValue]
    ELSE IF toks[i] \in Punctuation \/ i + 1 > Len(toks) \/ toks[i + 1] # "["
    THEN [raised |-> "JSONDecodeError", value |-> NoneValue]
    ELSE LET c == closing(toks, i + 2) IN
         IF c = 0 THEN [raised |-> "JSONDecodeError", value |-> NoneValue]
         ELSE parse_members(toks, c + 1,
                            DictPut(acc, toks[i], SubSeq(toks, i + 2, c - 1)))

\* json.load of the text of a document
json_parse(toks) ==
    IF toks = <<"null">> THEN [raised |-> "", value |-> NoneValue]
    ELSE IF toks = <<>> \/ toks[1] # "{"
    THEN [raised |-> "JSONDecodeError", value |-> NoneValue]
    ELSE parse_members(toks, 2, <<>>)

\* The bytes of a file. A document is kept as one entry per json token; only
\* the series name NonAscii (an accented letter) has utf-8 bytes that another
\* encoding reads as other characters.
NonAscii == "e-acute"
Utf8Bytes == "0xC3 0xA9"
Mojibake == "A-tilde copyright-sign"
Encodings == {"utf-8", "cp1252"}

\* open(path, "w", encoding="utf-8") with ensure_ascii=False: the characters
\* are written as their utf-8 bytes
encode_utf8(toks) == [i \in 1..Len(toks) |-> IF toks[i] = NonAscii THEN Utf8Bytes ELSE toks[i]]

\* open(path, "r"): the bytes are decoded with the preferred encoding of the
\* platform
decode(bytes, enc) ==
    [i \in 1..Len(bytes) |->
        IF bytes[i] = Utf8Bytes
        THEN (IF enc = "utf-8" THEN NonAscii ELSE Mojibake)
        ELSE bytes[i]]

\* open(path, "r") followed by json.load(json_file)
json_load(doc, enc) ==
    IF ~doc.exists THEN [raised |-> "FileNotFoundError", value |-> NoneValue]
    ELSE json_parse(decode(doc.text, enc))

\* ------------------------------------------- series_descriptions setter
\* (mutant) a loop over every pair of items
Overlapping_any_pair(items) ==
    \E i, j \in 1..Len(items) :
        i < j /\ ToSet(items[i][2]) \cap ToSet(items[j][2]) # {}

\* the loop of the setter: zip(items, items[1:]) visits consecutive items
Overlapping(items) ==
    \E i \in 1..(Len(items) - 1) :
        ToSet(items[i][2]) \cap ToSet(items[i + 1][2]) # {}

\* (mutant) the setter with the assignment moved before the check
setter_assigns_first(old, new) ==
    IF new.none THEN [raised |-> "AttributeError", value |-> old]
    ELSE IF Overlapping(new.items) THEN [raised |-> "AssertionError", value |-> new]
    ELSE [raised |-> "", value |-> new]

\* self.series_descriptions = new, on an object whose dictionary is old
series_descriptions_setter(old, new) ==
    IF new.none THEN [raised |-> "AttributeError", value |-> old]
    ELSE IF Overlapping(new.items) THEN [raised |-> "AssertionError", value |-> old]
    ELSE [raised |-> "", value |-> new]

\* self.path_to_series_description_json = p
path_to_series_description_json_setter(old, oldPath, p, docs, enc) ==
    LET loaded == json_load(docs[p], enc) IN
    IF loaded.raised # ""
    THEN [raised |-> loaded.raised, value |-> old, path |-> oldPath]
    ELSE LET assigned == series_descriptions_setter(old, loaded.value) IN
         IF assigned.raised # ""
         THEN [raised |-> assigned.raised, value |-> assigned.value, path |-> oldPath]
         ELSE [raised |-> "", value |-> assigned.value, path |-> p]

\* open(path, "w") truncates the file before json.dump writes it
save_series_descriptions_to_json(docs, path, obj, io) ==
    IF io = "write_fails"
    THEN [raised |-> "OSError", documents |-> [docs EXCEPT ![path] = File(<<>>)]]
    ELSE [raised |-> "", documents |-> [docs EXCEPT ![path] = File(encode_utf8(json_dump(obj)))]]

\* ------------------------------------------------------------ __init__
CtorArgs ==
    {[kind |-> "none", dict |-> <<>>, path |-> NoPath]}
    \cup {[kind |-> "dict", dict |-> m, path |-> NoPath] : m \in Mappings}
    \cup {[kind |-> "str", dict |-> <<>>, path |-> p] : p \in Paths}
    \cup {[kind |-> "other", dict |-> <<>>, path |-> NoPath]}

\* the dictionary __init__ hands to the series_descriptions setter, if any
init_given(arg, docs, enc) ==
    IF arg.kind = "str" THEN json_load(docs[arg.path], enc).value
    ELSE IF arg.kind = "dict" THEN Dict(arg.dict)
    ELSE NoneValue

\* (mutant) __init__ storing a dictionary without the setter
init_unchecked(arg, docs, enc) ==
    IF arg.kind = "str"
    THEN path_to_series_description_json_setter(NoneValue, NoPath, arg.path, docs, enc)
    ELSE IF arg.kind = "dict"
    THEN [raised |-> "", value |-> Dict(arg.dict), path |-> NoPath]
    ELSE IF arg.kind = "none"
    THEN [raised |-> "", value |-> NoneValue, path |-> NoPath]
    ELSE [raised |-> "TypeError", value |-> NoneValue, path |-> NoPath]

init(arg, docs, enc) ==
    IF arg.kind = "str"
    THEN path_to_series_description_json_setter(NoneValue, NoPath, arg.path, docs, enc)
    ELSE IF arg.kind = "dict"
    THEN LET assigned == series_descriptions_setter(NoneValue, Dict(arg.dict)) IN
         [raised |-> assigned.raised, value |-> assigned.value, path |-> NoPath]
    ELSE IF arg.kind = "none"
    THEN [raised |-> "", value |-> NoneValue, path |-> NoPath]
    ELSE [raised |-> "TypeError", value |-> NoneValue, path |-> NoPath]

\* ------------------------------------------------- the patient folders
paths_to_patients_folders == [i \in 1..NumPatients |-> i]

len == Len(paths_to_patients_folders)

\* ------------------------------------------------- PatientDataReader
patient_id(folder) == folder

available_series_descriptions(folder) ==
    IF folder % 2 = 1 THEN <<"a">> ELSE <<"a", "b">>

\* the lists of image keys a reader may report as failed
FailedLists == {<<>>, <<KeyNames[1], KeyNames[2]>>, <<SegKey>>}

\* the dictionaries a reader may hold after reading a patient: the one it
\* was given, that one with the next image key (disjoint from the key before
\* it, or not), or with the last key gone
Proposals(obj) ==
    IF obj.none THEN {Plain(1)}
    ELSE LET items == obj.items
             n == Len(items) IN
         {items}
         \cup (IF n < MaxKeys
               THEN {Append(items, <<KeyNames[n + 1], Canon(n + 1)>>)}
                    \cup (IF n > 0
                          THEN {Append(items, <<KeyNames[n + 1], Clash(n + 1)>>)}
                          ELSE {})
               ELSE {})
         \cup (IF n > 0 THEN {SubSeq(items, 1, n - 1)} ELSE {})

\* what a reader may do in place to the dictionary it was given
InPlace(obj) ==
    IF obj.none \/ obj.items = <<>> THEN {}
    ELSE {SubSeq(obj.items, 1, Len(obj.items) - 1)}

\* one construction and use of a reader: whether it could be built, whether
\* it changed the dictionary it was given in place or holds a new one, the
\* image keys it failed on, how writing the document goes and whether the
\* dataset can be produced
Run(ok, inplace, proposal, failed, io, dataset) ==
    [reader_ok |-> ok, inplace |-> inplace, proposal |-> proposal,
     failed_images |-> failed, io |-> io, dataset_ok |-> dataset]

ReaderRuns(obj, path) ==
    LET ios == IF path = NoPath THEN {"ok"} ELSE {"ok", "write_fails"} IN
    {Run(TRUE, FALSE, p, f, io, d) :
        p \in Proposals(obj), f \in FailedLists, io \in ios, d \in BOOLEAN}
    \cup {Run(TRUE, TRUE, p, f, io, d) :
        p \in InPlace(obj), f \in FailedLists, io \in ios, d \in BOOLEAN}
    \cup {Run(FALSE, FALSE, <<>>, <<>>, "ok", TRUE)}
    \cup {Run(FALSE, TRUE, p, <<>>, "ok", TRUE) : p \in InPlace(obj)}

\* the generator's dictionary once the reader was constructed on it: the
\* reader holds the very object it was given
after_reader(obj, run) ==
    IF run.inplace /\ ~obj.none THEN Dict(run.proposal) ELSE obj

\* patient_data_reader.series_descriptions
reader_series_descriptions(obj, run) ==
    IF run.inplace THEN after_reader(obj, run) ELSE Dict(run.proposal)

\* ---------------------------------------------------------------- send
\* line 225: if self._current_index == self.__len__()
Exhausted(idx) == idx = len

\* (mutant) a throw that ends the sequence once and fails afterwards
throw_once == IF stops > 0 THEN "ExhaustedSequenceError" ELSE "StopIteration"

\* throw(typ=StopIteration): raise typ
throw == "StopIteration"

\* (mutant) lines 236-237 without the test for None
update_always(obj, returned) == series_descriptions_setter(obj, returned)

\* lines 236-237: the dictionary is taken from the reader unless it is None
update_series_descriptions(obj, returned) ==
    IF ~obj.none THEN series_descriptions_setter(obj, returned)
    ELSE [raised |-> "", value |-> obj]

\* (mutant) lines 238-239 saving to a default document when no path is held
persist_to_default(docs, path, obj, io) ==
    IF path # NoPath /\ path # ""
    THEN save_series_descriptions_to_json(docs, path, obj, io)
    ELSE save_series_descriptions_to_json(docs, "missing.json", obj, io)

\* (mutant) lines 238-239 left out
persist_skipped(docs, path, obj, io) == [raised |-> "", documents |-> docs]

\* lines 238-239: the dictionary is saved when a path is held
persist(docs, path, obj, io) ==
    IF path # NoPath /\ path # ""
    THEN save_series_descriptions_to_json(docs, path, obj, io)
    ELSE [raised |-> "", documents |-> docs]

\* (mutant) line 241 with an empty list for what the dictionary does not hold
RECURSIVE failed_images_get(_, _, _)
failed_images_get(obj, failed, acc) ==
    IF failed = <<>> THEN [raised |-> "", value |-> acc]
    ELSE IF obj.none \/ Head(failed) \notin DictKeys(obj.items)
    THEN failed_images_get(obj, Tail(failed), DictPut(acc, Head(failed), <<>>))
    ELSE failed_images_get(obj, Tail(failed),
                           DictPut(acc, Head(failed), DictGet(obj.items, Head(failed))))

\* line 241: {image: self.series_descriptions[image] for image in failed_images}
RECURSIVE failed_images_dict(_, _, _)
failed_images_dict(obj, failed, acc) ==
    IF failed = <<>> THEN [raised |-> "", value |-> acc]
    ELSE IF obj.none THEN [raised |-> "TypeError", value |-> acc]
    ELSE IF Head(failed) \notin DictKeys(obj.items)
    THEN [raised |-> "KeyError", value |-> acc]
    ELSE failed_images_dict(obj, Tail(failed),
                            DictPut(acc, Head(failed), DictGet(obj.items, Head(failed))))

\* (mutant) lines 240-249 keeping only the newest PatientWhoFailed
record_failure_newest(pwf, obj, folder, failed) ==
    IF failed = <<>> THEN [raised |-> "", value |-> pwf]
    ELSE LET looked == failed_images_dict(obj, failed, <<>>) IN
         IF looked.raised # "" THEN [raised |-> looked.raised, value |-> pwf]
         ELSE [raised |-> "",
               value |-> <<[id |-> patient_id(folder),
                            failed_images |-> looked.value,
                            available_series_descriptions |->
                                available_series_descriptions(folder)]>>]

\* (mutant) lines 240-249 without the test of line 240
record_failure_always(pwf, obj, folder, failed) ==
    LET looked == failed_images_dict(obj, failed, <<>>) IN
    IF looked.raised # "" THEN [raised |-> looked.raised, value |-> pwf]
    ELSE [raised |-> "",
          value |-> Append(pwf,
              [id |-> patient_id(folder),
               failed_images |-> looked.value,
               available_series_descriptions |->
                   available_series_descriptions(folder)])]

\* lines 240-249: one PatientWhoFailed is appended when images failed
record_failure(pwf, obj, folder, failed) ==
    IF failed = <<>> THEN [raised |-> "", value |-> pwf]
    ELSE LET looked == failed_images_dict(obj, failed, <<>>) IN
         IF looked.raised # "" THEN [raised |-> looked.raised, value |-> pwf]
         ELSE [raised |-> "",
               value |-> Append(pwf,
                   [id |-> patient_id(folder),
                    failed_images |-> looked.value,
                    available_series_descriptions |->
                        available_series_descriptions(folder)])]

\* (mutant) line 251 stepping over a folder
advance_twice(idx) == idx + 2

\* (mutant) line 251 left out
advance_stuck(idx) == idx

\* line 251: self._current_index += 1
advance(idx) == idx + 1

\* what a call leaves behind when it changes nothing
Quiet(obj, idx, pwf, docs) ==
    [raised |-> "", series_descriptions |-> obj, documents |-> docs,
     patients_who_failed |-> pwf, current_index |-> idx, folder |-> 0,
     reader |-> "none", handed |-> NoneValue, given |-> NoneValue,
     failed_images |-> <<>>]

\* lines 228-253 of send(): the fields of the generator after the call, what
\* it raised ("" when it returned a dataset) and what it did on the way
resolve_patient(obj, path, idx, pwf, docs, run) ==
    LET quiet == Quiet(obj, idx, pwf, docs) IN
    IF idx + 1 \notin DOMAIN paths_to_patients_folders
    THEN [quiet EXCEPT !.raised = "IndexError"]
    ELSE
    LET folder == paths_to_patients_folders[idx + 1]
        held == after_reader(obj, run)
        began == [quiet EXCEPT !.folder = folder, !.series_descriptions = held] IN
    IF ~run.reader_ok
    THEN [began EXCEPT !.raised = "PatientFolderError", !.reader = "failed"]
    ELSE
    LET returned == reader_series_descriptions(obj, run)
        read == [began EXCEPT !.reader = "built",
                              !.failed_images = run.failed_images,
                              !.handed = held,
                              !.given = IF held.none THEN NoneValue ELSE returned]
        updated == update_series_descriptions(held, returned) IN
    IF updated.raised # ""
    THEN [read EXCEPT !.raised = updated.raised,
                      !.series_descriptions = updated.value]
    ELSE
    LET saved == persist(docs, path, updated.value, run.io)
        kept == [read EXCEPT !.series_descriptions = updated.value,
                             !.documents = saved.documents] IN
    IF saved.raised # "" THEN [kept EXCEPT !.raised = saved.raised]
    ELSE
    LET recorded == record_failure(pwf, updated.value, folder, run.failed_images) IN
    IF recorded.raised # "" THEN [kept EXCEPT !.raised = recorded.raised]
    ELSE [kept EXCEPT !.patients_who_failed = recorded.value,
                      !.current_index = advance(idx),
                      !.raised = IF run.dataset_ok THEN "" ELSE "DatasetError"]

\* (mutant) a send that rewinds the generator when it is exhausted
send_rewinding(obj, path, idx, pwf, docs, run) ==
    IF Exhausted(idx)
    THEN [Quiet(obj, idx, pwf, docs) EXCEPT !.raised = throw, !.current_index = 0]
    ELSE resolve_patient(obj, path, idx, pwf, docs, run)

\* send(): lines 225-226, then the rest
send(obj, path, idx, pwf, docs, run) ==
    IF Exhausted(idx) THEN [Quiet(obj, idx, pwf, docs) EXCEPT !.raised = throw]
    ELSE resolve_patient(obj, path, idx, pwf, docs, run)

\* ------------------------------------------------------- the operations
InitialDocuments ==
    [p \in Paths |->
        IF p = "good.json"
        THEN File(encode_utf8(json_dump(Dict(Plain(2)))))
        ELSE IF p = "overlap.json"
        THEN File(encode_utf8(json_dump(Dict(Clashing(2)))))
        ELSE NoFile]

\* a call that is no send: the dictionary it was given to assign, if any
Call(op, raised, given) ==
    [op |-> op, raised |-> raised, folder |-> 0, reader |-> "none",
     handed |-> NoneValue, given |-> given, failed_images |-> <<>>,
     path |-> NoPath]

Init ==
    /\ status = "unbuilt"
    /\ series_descriptions = NoneValue
    /\ path_to_series_description_json = NoPath
    /\ current_index = 0
    /\ patients_who_failed = <<>>
    /\ documents = InitialDocuments
    /\ last = Call("none", "", NoneValue)
    /\ yielded = <<>>
    /\ resolved = {}
    /\ stops = 0
    /\ clean = TRUE

\* PatientsDataGenerator(path_to_patients_folder, series_descriptions=arg)
Construct ==
    /\ status = "unbuilt"
    /\ \E arg \in CtorArgs, enc \in Encodings :
        LET made == init(arg, documents, enc) IN
        /\ status' = IF made.raised = "" THEN "built" ELSE "ctor_failed"
        /\ series_descriptions' = made.value
        /\ path_to_series_description_json' = made.path
        /\ last' = Call("init", made.raised, init_given(arg, documents, enc))
    /\ current_index' = 0
    /\ patients_who_failed' = <<>>
    /\ UNCHANGED <<documents, yielded, resolved, stops, clean>>

\* generator.series_descriptions = m
SetSeriesDescriptions ==
    /\ status = "built"
    /\ \E m \in {NoneValue} \cup {Dict(items) : items \in Mappings} :
        LET assigned == series_descriptions_setter(series_descriptions, m) IN
        /\ series_descriptions' = assigned.value
        /\ last' = Call("set", assigned.raised, m)
    /\ UNCHANGED <<status, path_to_series_description_json, current_index,
                   patients_who_failed, documents, yielded, resolved,
                   stops, clean>>

\* generator.path_to_series_description_json = p
SetPath ==
    /\ status = "built"
    /\ \E p \in Paths, enc \in Encodings :
        LET assigned == path_to_series_description_json_setter(
                            series_descriptions, path_to_series_description_json,
                            p, documents, enc) IN
        /\ series_descriptions' = assigned.value
        /\ path_to_series_description_json' = assigned.path
        /\ last' = [Call("load", assigned.raised, json_load(documents[p], enc).value)
                        EXCEPT !.path = p]
    /\ UNCHANGED <<status, current_index, patients_who_failed, documents,
                   yielded, resolved, stops, clean>>

\* generator.send(None), which next(generator) calls
Send ==
    /\ status = "built"
    /\ \E run \in ReaderRuns(series_descriptions, path_to_series_description_json) :
       \E sent \in {send(series_descriptions, path_to_series_description_json,
                         current_index, patients_who_failed, documents, run)} :
        /\ series_descriptions' = sent.series_descriptions
        /\ current_index' = sent.current_index
        /\ patients_who_failed' = sent.patients_who_failed
        /\ documents' = sent.documents
        /\ last' = [op |-> "send", raised |-> sent.raised, folder |-> sent.folder,
                    reader |-> sent.reader, handed |-> sent.handed,
                    given |-> sent.given, path |-> NoPath,
                    failed_images |-> sent.failed_images]
        /\ yielded' = IF sent.raised = "" THEN Append(yielded, sent.folder) ELSE yielded
        /\ resolved' = IF sent.reader = "built" THEN resolved \cup {sent.folder}
                       ELSE resolved
        /\ stops' = IF sent.raised = "StopIteration" /\ stops < 2 THEN stops + 1
                    ELSE stops
        /\ clean' = (clean /\ sent.raised \in {"", "StopIteration"})
    /\ UNCHANGED <<status, path_to_series_description_json>>

Next == Construct \/ SetSeriesDescriptions \/ SetPath \/ Send

Spec == Init /\ [][Next]_vars

\* ------------------------------------------- saving and loading again
\* the lists of series names of a dictionary that is saved, one of them with
\* a name outside ASCII
RtLists == {<<"a">>, <<"c", "b">>, <<NonAscii>>}

\* the image keys in the order of KeyNames or in the opposite order
RtKeys(n) == {[i \in 1..n |-> KeyNames[i]], [i \in 1..n |-> KeyNames[n + 1 - i]]}

RtMappings ==
    UNION {{[i \in 1..n |-> <<keys[i], lists[i]>>] :
                keys \in RtKeys(n), lists \in [1..n -> RtLists]} : n \in 0..MaxKeys}

\* a generator constructed with a dictionary that the setter accepts
RtInit ==
    /\ status = "built"
    /\ \E items \in RtMappings :
        LET made == init([kind |-> "dict", dict |-> items, path |-> NoPath],
                         InitialDocuments, "utf-8") IN
        /\ made.raised = ""
        /\ series_descriptions = made.value
        /\ path_to_series_description_json = made.path
        /\ last = Call("init", made.raised, Dict(items))
    /\ current_index = 0
    /\ patients_who_failed = <<>>
    /\ documents = InitialDocuments
    /\ yielded = <<>>
    /\ resolved = {}
    /\ stops = 0
    /\ clean = TRUE

\* generator.save_series_descriptions_to_json(p); one save is followed
Save ==
    /\ status = "built"
    /\ documents = InitialDocuments
    /\ \E p \in Paths, io \in {"ok", "write_fails"} :
        LET saved == save_series_descriptions_to_json(documents, p,
                                                      series_descriptions, io) IN
        /\ documents' = saved.documents
        /\ last' = [Call("save", saved.raised, series_descriptions) EXCEPT !.path = p]
    /\ UNCHANGED <<status, series_descriptions, path_to_series_description_json,
                   current_index, patients_who_failed, yielded, resolved,
                   stops, clean>>

RtNext == Save \/ SetPath

SpecRoundTrip == RtInit /\ [][RtNext]_vars

\* ------------------------------------------------------------ the claims
Disjoint(items, i, j) == ToSet(items[i][2]) \cap ToSet(items[j][2]) = {}

IsSend == last'.op = "send"

InOrder(seq) == \A j \in 1..Len(seq) : j <= len /\ seq[j] = paths_to_patients_folders[j]

\* C1: while every resolution succeeds, the datasets returned so far are those
\* of the first current_index folders in enumeration order, each once; a send
\* returns the dataset of the folder at the index, and raises StopIteration
\* exactly when the index has reached the number of folders.
C1_YieldsEveryPatientOnce ==
    /\ [](clean => yielded = SubSeq(paths_to_patients_folders, 1, current_index))
    /\ [][(clean /\ IsSend) =>
            /\ (current_index = len) <=> (last'.raised = "StopIteration")
            /\ last'.raised = "" =>
                 yielded' = Append(yielded, paths_to_patients_folders[current_index + 1])
            /\ last'.raised = "StopIteration" => yielded' = yielded]_vars

C1_Witness ==
    clean /\ last.op = "send" /\ last.raised = "StopIteration" /\ Len(yielded) = len

\* C2 as claimed: a send on an exhausted generator that has already raised
\* StopIteration fails with ExhaustedSequenceError.
C2_LaterResumptionsFailDifferently ==
    [][(IsSend /\ current_index = len /\ stops > 0) =>
            last'.raised = "ExhaustedSequenceError"]_vars

\* C2 as amended: every send on an exhausted generator raises StopIteration,
\* the first one and every later one, and no call ever fails with
\* ExhaustedSequenceError.
C2_ExhaustedAlwaysStops ==
    /\ [](last.raised # "ExhaustedSequenceError")
    /\ [][(IsSend /\ current_index = len) => last'.raised = "StopIteration"]_vars

C2_Witness ==
    stops = 2 /\ last.op = "send" /\ last.raised = "StopIteration" /\ current_index = len

\* C3: the dictionary held by a generator is disjoint over all pairs of
\* distinct image keys.
C3_PairwiseDisjoint ==
    (status = "built" /\ ~series_descriptions.none) =>
        \A i, j \in 1..Len(series_descriptions.items) :
            i # j => Disjoint(series_descriptions.items, i, j)

\* C4 as claimed: once a generator has returned a dataset its dictionary is
\* not None.
C4_UnsetRegistryIsReplaced ==
    (status = "built" /\ yielded # <<>>) => ~series_descriptions.none

\* C4 as amended: a send leaves a dictionary that is None at None; a send on
\* a dictionary that is not None, once the reader is built and its dictionary
\* accepted, holds the dictionary of the reader.
C4_UnsetRegistryStaysUnset ==
    [][IsSend =>
        /\ series_descriptions.none => series_descriptions'.none
        /\ (last'.reader = "built" /\ ~last'.handed.none
              /\ last'.raised \notin {"AssertionError", "AttributeError"}) =>
             series_descriptions' = last'.given]_vars

C4_Witness ==
    series_descriptions.none /\ last.op = "send" /\ last.raised = "" /\ yielded # <<>>

\* C5: no dataset of a later folder is returned while the dataset of an
\* earlier folder was never returned.
C5_NoPatientSkipped == InOrder(yielded)

\* C6: no send builds a reader for a folder a reader was already built for.
C6_ResolvedAtMostOnce ==
    [][(IsSend /\ last'.reader = "built") => last'.folder \notin resolved]_vars

\* C7: an assignment of the dictionary that is rejected leaves the dictionary
\* as it was before the assignment (and a rejected load leaves the path as it
\* was); an accepted one makes it the dictionary given. This holds for the
\* setter, for the path setter and for the assignment inside send.
C7_SetIsAtomic ==
    [][/\ last'.op = "set" =>
            IF last'.raised # "" THEN series_descriptions' = series_descriptions
            ELSE series_descriptions' = last'.given
       /\ last'.op = "load" =>
            IF last'.raised # ""
            THEN /\ series_descriptions' = series_descriptions
                 /\ path_to_series_description_json' = path_to_series_description_json
            ELSE /\ series_descriptions' = last'.given
                 /\ path_to_series_description_json' \in Paths
       /\ (IsSend /\ last'.reader = "built" /\ ~last'.handed.none) =>
            IF last'.raised \in {"AssertionError", "AttributeError"}
            THEN series_descriptions' = last'.handed
            ELSE series_descriptions' = last'.given]_vars

C7_Witness ==
    /\ last.op = "send" /\ last.raised = "AssertionError"
    /\ series_descriptions = last.handed /\ last.given # last.handed

\* C8: after a send that returned a dataset on a generator holding a path, the
\* document at that path reads back as the dictionary the generator holds.
C8_DocumentFollowsRegistry ==
    (last.op = "send" /\ last.raised = "" /\ path_to_series_description_json # NoPath) =>
        json_load(documents[path_to_series_description_json], "utf-8") =
            [raised |-> "", value |-> series_descriptions]

C8_Witness ==
    /\ last.op = "send" /\ last.raised = ""
    /\ path_to_series_description_json # NoPath
    /\ documents[path_to_series_description_json] #
           InitialDocuments[path_to_series_description_json]
    /\ Len(series_descriptions.items) > 1

C10_ExhaustedResumptionIsQuiet ==
    [][(IsSend /\ current_index = len) =>
        /\ last'.reader = "none"
        /\ UNCHANGED <<current_index, series_descriptions,
                       path_to_series_description_json, patients_who_failed,
                       documents, resolved, yielded>>]_vars

C10_Witness ==
    /\ last.op = "send" /\ last.raised = "StopIteration" /\ current_index = len
    /\ yielded # <<>> /\ patients_who_failed # <<>>

\* C11: a load of the path that the call before it saved to succeeds and
\* leaves the dictionary that was saved, keys and lists in the same order.
C11_SaveThenLoadIsIdentity ==
    [][(last.op = "save" /\ last.raised = "" /\ last'.op = "load"
            /\ last'.path = last.path)
        => (last'.raised = "" /\ series_descriptions' = series_descriptions)]_vars

\* C12: the index stays between 0 and the number of folders, is 0 after
\* construction, grows by exactly one in a send that returns a dataset, never
\* decreases, and no longer changes once it equals the number of folders.
C12_IndexOnlyAdvances ==
    /\ [](current_index \in 0..len)
    /\ [][last'.op = "init" => current_index' = 0]_vars
    /\ [][(IsSend /\ last'.raised = "") => current_index' = current_index + 1]_vars
    /\ [][current_index' >= current_index]_vars
    /\ [][current_index = len => current_index' = len]_vars

C12_Witness ==
    /\ last.op = "send"
    /\ last.raised = "StopIteration"
    /\ stops = 2
    /\ current_index = len
    /\ Len(yielded) > 0

\* C13: what a reader does to the dictionary it was handed does not reach the
\* generator: a send changes the generator's dictionary only by assigning the
\* dictionary a built reader returned, so a send whose reader cannot be built
\* leaves the dictionary as it was.
C13_ReaderGetsACopy ==
    [][IsSend =>
        /\ (last'.reader # "built" => series_descriptions' = series_descriptions)
        /\ (series_descriptions' # series_descriptions =>
                /\ last'.raised \notin {"AssertionError", "AttributeError"}
                /\ series_descriptions' = last'.given)]_vars

IsPrefix(s, t) == Len(s) <= Len(t) /\ SubSeq(t, 1, Len(s)) = s

\* C14: every call leaves the list of patients who failed with the list before
\* the call as a prefix: records are only appended, by sends that succeed, fail
\* or find the generator exhausted alike, and a send that raises StopIteration
\* leaves the list as it is.
C14_FailuresAreAppendOnly ==
    /\ [][IsPrefix(patients_who_failed, patients_who_failed')]_vars
    /\ [][(IsSend /\ last'.raised = "StopIteration")
            => patients_who_failed' = patients_who_failed]_vars

C14_Witness ==
    /\ last.op = "send"
    /\ last.raised = "StopIteration"
    /\ ~clean
    /\ Len(patients_who_failed) >= 2

\* C15: a construction that hands the setter a dictionary it rejects raises
\* AssertionError and leaves no generator; for a construction that failed no
\* reader was built, no dataset returned, no patient recorded as failed and
\* no document written.
C15_RejectedRegistryFailsConstruction ==
    /\ [][(last'.op = "init" /\ ~last'.given.none /\ Overlapping(last'.given.items))
            => (status' = "ctor_failed" /\ last'.raised = "AssertionError")]_vars
    /\ [](status = "ctor_failed" =>
            /\ last.op = "init"
            /\ resolved = {}
            /\ yielded = <<>>
            /\ patients_who_failed = <<>>
            /\ current_index = 0
            /\ documents = InitialDocuments)

C15_Witness ==
    /\ status = "ctor_failed"
    /\ last.raised = "AssertionError"
    /\ last.given = Dict(Clashing(MaxKeys))

C17_RecordsOnlyKnownKeys ==
    [][IsSend =>
        /\ (patients_who_failed' # patients_who_failed =>
                /\ ~series_descriptions'.none
                /\ Len(patients_who_failed') = Len(patients_who_failed) + 1
                /\ LET rec == patients_who_failed'[Len(patients_who_failed')].failed_images IN
                   /\ DictKeys(rec) = ToSet(last'.failed_images)
                   /\ \A k \in DictKeys(rec) :
                        /\ k \in DictKeys(series_descriptions'.items)
                        /\ DictGet(rec, k) = DictGet(series_descriptions'.items, k))
        /\ ((/\ last'.reader = "built"
             /\ last'.failed_images # <<>>
             /\ \/ series_descriptions'.none
                \/ ~(ToSet(last'.failed_images) \subseteq DictKeys(series_descriptions'.items)))
            => /\ last'.raised # ""
               /\ (last'.raised \notin {"AssertionError", "AttributeError", "OSError"}
                      => last'.raised \in {"KeyError", "TypeError"})
               /\ patients_who_failed' = patients_who_failed
               /\ current_index' = current_index)]_vars

C17_Witness ==
    /\ last.op = "send"
    /\ last.raised = "KeyError"
    /\ last.failed_images = <<SegKey>>
    /\ ~series_descriptions.none
    /\ Len(patients_who_failed) = 1
    /\ current_index = 1

\* C18 as stated: the path of a constructed generator never changes, and a
\* generator that holds no path writes no document.
C18_PathFixedAtConstruction ==
    /\ [][status = "built" =>
            path_to_series_description_json' = path_to_series_description_json]_vars
    /\ [][(status = "built" /\ path_to_series_description_json = NoPath)
            => documents' = documents]_vars

\* C18: no send changes the path; the path changes only in a construction from
\* a path or an assignment to the path property that loaded a document and had
\* its dictionary accepted, and is then the path of that document; a send of a
\* generator that holds no path writes nothing, and the only document a send
\* writes is the one at the path held.
C18_PathChangesOnlyByItsSetter ==
    /\ [][IsSend =>
            path_to_series_description_json' = path_to_series_description_json]_vars
    /\ [][path_to_series_description_json' # path_to_series_description_json =>
            /\ last'.op \in {"init", "load"}
            /\ last'.raised = ""
            /\ path_to_series_description_json' \in Paths
            /\ ~last'.given.none
            /\ series_descriptions' = last'.given]_vars
    /\ [][(IsSend /\ path_to_series_description_json = NoPath)
            => documents' = documents]_vars
    /\ [][IsSend =>
            \A p \in Paths :
                documents'[p] # documents[p] => p = path_to_series_description_json]_vars

C18_Witness ==
    /\ last.op = "send"
    /\ last.raised = ""
    /\ path_to_series_description_json = NoPath
    /\ ~series_descriptions.none
    /\ Len(series_descriptions.items) = MaxKeys
    /\ current_index = len
    /\ documents = InitialDocuments

====
